---- MODULE Spec2Model ----
(***************************************************************************)
(* Model of github.com/lukasaron/isbn: parsing, validation and             *)
(* normalisation of ISBN strings (ISO 2108:2017).                          *)
(*                                                                         *)
(* A Go string is modelled as a sequence of one-character strings.  An     *)
(* ISBN value is a record with the fields of the Go struct.  The state     *)
(* machine hands one input string to NewISBN and then applies Normalize,   *)
(* the only mutator; IsValid, String and BarCode are pure operators.       *)
(***************************************************************************)
EXTENDS Integers, Sequences, FiniteSets, TLC

VARIABLES input, isbn, pc, normalized

vars == <<input, isbn, pc, normalized>>

(***************************************************************************)
(* Program constants.                                                      *)
(***************************************************************************)
VersionUnknown == 0
Version10 == 10
Version13 == 13

DefaultPrefix == <<"9", "7", "8">>

version10Mod == 11
version13Mod == 10

versionXParts == 1
version10Parts == 4
version13Parts == 5

prefixLength == 3
groupLength == 5
registrantLength == 5
checkDigitLength == 1

headerLength == 7

nil == "nil"
errWrongISBN == "wrong input ISBN format"

(***************************************************************************)
(* Characters.  Code gives the byte value of each character the model      *)
(* uses; the Go code computes with these values (v - '0').                 *)
(***************************************************************************)
Digits == {"0", "1", "2", "3", "4", "5", "6", "7", "8", "9"}

Code ==
    [c \in Digits \cup {"X", "x", "-", " ", "I", "S", "B", "N", "i", "s", "b", "n"} |->
        CASE c = "0" -> 48 [] c = "1" -> 49 [] c = "2" -> 50 [] c = "3" -> 51
          [] c = "4" -> 52 [] c = "5" -> 53 [] c = "6" -> 54 [] c = "7" -> 55
          [] c = "8" -> 56 [] c = "9" -> 57
          [] c = "X" -> 88 [] c = "x" -> 120
          [] c = "-" -> 45 [] c = " " -> 32
          [] c = "I" -> 73 [] c = "S" -> 83 [] c = "B" -> 66 [] c = "N" -> 78
          [] c = "i" -> 105 [] c = "s" -> 115 [] c = "b" -> 98 [] c = "n" -> 110]

DigitChar == [n \in 0..9 |-> CHOOSE c \in Digits : Code[c] = 48 + n]

\* strconv.Itoa for the non-negative numbers the checksum code produces.
RECURSIVE Itoa(_)
Itoa(n) == IF n < 10 THEN <<DigitChar[n]>>
           ELSE Itoa(n \div 10) \o <<DigitChar[n % 10]>>

\* math.Pow10(mul) converted to int, for the exponents parseNumber uses.
RECURSIVE Pow10(_)
Pow10(mul) == IF mul = 0 THEN 1 ELSE 10 * Pow10(mul - 1)

(***************************************************************************)
(* The ISBN struct and its zero value.                                     *)
(***************************************************************************)
ZeroISBN ==
    [originalISBN      |-> <<>>,
     version           |-> VersionUnknown,
     prefix            |-> <<>>,
     registrationGroup |-> <<>>,
     registrant        |-> <<>>,
     publication       |-> <<>>,
     checkDigit        |-> <<>>,
     err               |-> nil]

(***************************************************************************)
(* The two regular expressions.                                            *)
(***************************************************************************)
\* isbnRegex.MatchString: (ISBN|isbn)?[\d\s\-]+[xX]? is not anchored and its
\* first and last parts are optional, so it matches exactly the strings
\* holding a digit, a white space or a hyphen.
isbnRegexMatch(s) ==
    \E i \in 1..Len(s) : s[i] \in Digits \cup {" ", "-"}

IsTokenChar(c) == c \in Digits \cup {"X", "x"}

\* isbnParserRegex.FindAllString(s, -1): the maximal runs of [\dXx], left to
\* right.  cur is the run being read, acc the runs already closed.
RECURSIVE FindAll(_, _, _, _)
FindAll(s, i, cur, acc) ==
    IF i > Len(s)
    THEN IF cur = <<>> THEN acc ELSE Append(acc, cur)
    ELSE IF IsTokenChar(s[i])
         THEN FindAll(s, i + 1, Append(cur, s[i]), acc)
         ELSE FindAll(s, i + 1, <<>>, IF cur = <<>> THEN acc ELSE Append(acc, cur))

isbnParserRegexFindAll(s) == FindAll(s, 1, <<>>, <<>>)

(***************************************************************************)
(* Helpers of the length-inference parser.  Indices are Go's (from 0).     *)
(***************************************************************************)
\* parseNumber: the decimal value of input[start : start+length], 0 when the
\* input is too short.  input[i]-'0' is a byte subtraction (mod 256).
RECURSIVE parseNumberSum(_, _, _, _)
parseNumberSum(inp, i, start, mul) ==
    IF i < start THEN 0
    ELSE ((Code[inp[i + 1]] - 48) % 256) * Pow10(mul)
         + parseNumberSum(inp, i - 1, start, mul + 1)

parseNumber(inp, start, length) ==
    IF Len(inp) < start + length THEN 0
    ELSE parseNumberSum(inp, start + length - 1, start, 0)

\* subString: an error when the input is shorter than start+length; the slice
\* expression input[start : start+length] panics when start > start+length.
subString(inp, start, length) ==
    IF Len(inp) < start + length
    THEN [str |-> <<>>, err |-> errWrongISBN, panic |-> FALSE]
    ELSE IF start > start + length
         THEN [str |-> <<>>, err |-> nil, panic |-> TRUE]
         ELSE [str |-> SubSeq(inp, start + 1, start + length),
               err |-> nil, panic |-> FALSE]

parseGroupLength(group) ==
    CASE group < 60000 -> 1
      [] group >= 60000 /\ group < 70000 -> 0
      [] group >= 70000 /\ group < 80000 -> 1
      [] group >= 80000 /\ group < 95000 -> 2
      [] group >= 95000 /\ group < 99000 -> 3
      [] group >= 99000 /\ group < 99900 -> 4
      [] group >= 99900 /\ group < 99999 -> 5
      [] OTHER -> 0

\* Defective variant of parseRegistrantLength: the band from 89000 to 95000
\* continues the band below it instead of dropping to two digits.
parseRegistrantLength_Monotonic(registrant) ==
    CASE registrant < 20000 -> 2
      [] registrant >= 20000 /\ registrant < 50000 -> 3
      [] registrant >= 50000 /\ registrant < 99000 -> 4
      [] registrant >= 99000 /\ registrant < 100000 -> 5
      [] OTHER -> 0

parseRegistrantLength(registrant) ==
    CASE registrant < 20000 -> 2
      [] registrant >= 20000 /\ registrant < 50000 -> 3
      [] registrant >= 50000 /\ registrant < 89000 -> 4
      [] registrant >= 89000 /\ registrant < 95000 -> 2
      [] registrant >= 95000 /\ registrant < 99000 -> 4
      [] registrant >= 99000 /\ registrant < 100000 -> 5
      [] OTHER -> 0

\* parseISBN returns [isbn, panic]: the record built so far, and whether the
\* call ended in a run-time panic instead of returning.
Returned(r) == [isbn |-> r, panic |-> FALSE]
Panicked(r) == [isbn |-> r, panic |-> TRUE]

parseISBN(isbnStr) ==
    LET p == subString(isbnStr, 0, prefixLength) IN
    IF p.err # nil
    THEN Returned([ZeroISBN EXCEPT !.prefix = p.str, !.err = p.err])
    ELSE
    LET isV13 == (p.str = DefaultPrefix)
        r1  == [ZeroISBN EXCEPT
                   !.prefix = IF isV13 THEN p.str ELSE <<>>,
                   !.version = IF isV13 THEN Version13 ELSE Version10]
        idx1 == IF isV13 THEN prefixLength ELSE 0
        gLen == parseGroupLength(parseNumber(isbnStr, idx1, groupLength))
    IN
    IF gLen = 0 THEN Returned([r1 EXCEPT !.err = errWrongISBN])
    ELSE
    LET g  == subString(isbnStr, idx1, gLen)
        r2 == [r1 EXCEPT !.registrationGroup = g.str, !.err = g.err]
    IN
    IF g.panic THEN Panicked(r1)
    ELSE IF g.err # nil THEN Returned(r2)
    ELSE
    LET idx2 == idx1 + gLen
        rLen == parseRegistrantLength(parseNumber(isbnStr, idx2, registrantLength))
    IN
    IF rLen = 0 THEN Returned([r2 EXCEPT !.err = errWrongISBN])
    ELSE
    LET rg == subString(isbnStr, idx2, rLen)
        r3 == [r2 EXCEPT !.registrant = rg.str, !.err = rg.err]
    IN
    IF rg.panic THEN Panicked(r2)
    ELSE IF rg.err # nil THEN Returned(r3)
    ELSE
    LET idx3    == idx2 + rLen
        lastIdx == Len(isbnStr) - 1
        pb == subString(isbnStr, idx3, lastIdx - idx3)
        r4 == [r3 EXCEPT !.publication = pb.str, !.err = pb.err]
    IN
    IF pb.panic THEN Panicked(r3)
    ELSE IF pb.err # nil THEN Returned(r4)
    ELSE
    LET cd == subString(isbnStr, lastIdx, checkDigitLength)
        r5 == [r4 EXCEPT !.checkDigit = cd.str, !.err = cd.err]
    IN
    IF cd.panic THEN Panicked(r4) ELSE Returned(r5)

(***************************************************************************)
(* Checksum engine.  weightFn returns a closure with hidden state; the     *)
(* closure is modelled by its state, and weight(w) is one call of it.      *)
(***************************************************************************)
weightFn(version) ==
    CASE version = Version10 -> [kind |-> Version10, value |-> 10, idx |-> 0]
      [] version = Version13 -> [kind |-> Version13, value |-> 0, idx |-> -1]
      [] OTHER               -> [kind |-> VersionUnknown, value |-> 0, idx |-> 0]

version13Weights == <<1, 3>>

\* One call of the closure: [v |-> the weight returned, w |-> the new state].
weight(w) ==
    IF w.kind = Version10
    THEN [v |-> w.value, w |-> [w EXCEPT !.value = w.value - 1]]
    ELSE [v |-> version13Weights[((w.idx + 1) % 2) + 1],
          w |-> [w EXCEPT !.idx = w.idx + 1]]

\* weightSum: [sum, w], the weighted sum of the characters of number and the
\* closure's state after it.  int(v-'0') is a signed rune difference.
RECURSIVE weightSumFrom(_, _, _, _)
weightSumFrom(number, i, sum, w) ==
    IF i > Len(number) THEN [sum |-> sum, w |-> w]
    ELSE LET c == weight(w) IN
         weightSumFrom(number, i + 1, sum + (Code[number[i]] - 48) * c.v, c.w)

weightSum(number, w) == weightSumFrom(number, 1, 0, w)

\* Go's % truncates toward zero.
GoMod(a, b) == IF a >= 0 THEN a % b ELSE -((-a) % b)

\* Defective variant of calculateV13CheckDigit: every field is summed with a
\* fresh closure, so the weights restart at 1 at each field boundary.
calculateV13CheckDigit_FreshWeights(r) ==
    LET s1 == weightSum(r.prefix, weightFn(r.version))
        s2 == weightSum(r.registrationGroup, weightFn(r.version))
        s3 == weightSum(r.registrant, weightFn(r.version))
        s4 == weightSum(r.publication, weightFn(r.version))
        sum == s1.sum + s2.sum + s3.sum + s4.sum
        rem == GoMod(sum, version13Mod)
        reminder == IF rem = 0 THEN version13Mod ELSE rem
    IN Itoa(version13Mod - reminder)

\* Defective variant of calculateV13CheckDigit: the publication is left out
\* of the sum.
calculateV13CheckDigit_NoPublication(r) ==
    LET w0 == weightFn(r.version)
        s1 == weightSum(r.prefix, w0)
        s2 == weightSum(r.registrationGroup, s1.w)
        s3 == weightSum(r.registrant, s2.w)
        sum == s1.sum + s2.sum + s3.sum
        rem == GoMod(sum, version13Mod)
        reminder == IF rem = 0 THEN version13Mod ELSE rem
    IN Itoa(version13Mod - reminder)

calculateV13CheckDigit(r) ==
    LET w0 == weightFn(r.version)
        s1 == weightSum(r.prefix, w0)
        s2 == weightSum(r.registrationGroup, s1.w)
        s3 == weightSum(r.registrant, s2.w)
        s4 == weightSum(r.publication, s3.w)
        sum == s1.sum + s2.sum + s3.sum + s4.sum
        rem == GoMod(sum, version13Mod)
        reminder == IF rem = 0 THEN version13Mod ELSE rem
    IN Itoa(version13Mod - reminder)

calculateV10CheckDigit(r) ==
    LET w0 == weightFn(r.version)
        s1 == weightSum(r.registrationGroup, w0)
        s2 == weightSum(r.registrant, s1.w)
        s3 == weightSum(r.publication, s2.w)
        sum == s1.sum + s2.sum + s3.sum
        digit == version10Mod - GoMod(sum, version10Mod)
    IN IF digit < 10 THEN Itoa(digit) ELSE <<"X">>

(***************************************************************************)
(* The public operations.                                                  *)
(***************************************************************************)
\* Go's slice s[:n] of a string of at least n characters.
Prefix(s, n) == SubSeq(s, 1, n)

getVersionFromOriginal(r) ==
    IF r.originalISBN[1] # "i" /\ r.originalISBN[1] # "I" THEN VersionUnknown
    ELSE LET possibleVersion == Prefix(r.originalISBN, headerLength) IN
         CASE possibleVersion \in {<<"i", "s", "b", "n", "-", "1", "0">>,
                                   <<"I", "S", "B", "N", "-", "1", "0">>}
                -> Version10
           [] possibleVersion \in {<<"i", "s", "b", "n">>,
                                   <<"I", "S", "B", "N">>,
                                   <<"i", "s", "b", "n", "-", "1", "3">>,
                                   <<"I", "S", "B", "N", "-", "1", "3">>}
                -> Version13
           [] OTHER -> VersionUnknown

\* Defective variant of IsValid: the version declared by the original input
\* is not compared with the record's version.
IsValid_NoOriginCheck(r) ==
    IF r.err # nil \/ Len(r.checkDigit) # 1 \/ Len(r.originalISBN) < headerLength
    THEN FALSE
    ELSE CASE r.version = Version10 -> calculateV10CheckDigit(r) = r.checkDigit
           [] r.version = Version13 -> calculateV13CheckDigit(r) = r.checkDigit
           [] OTHER -> FALSE

\* Defective variant of IsValid: an original input shorter than the header
\* is treated as declaring no version instead of being rejected.
IsValid_ShortOriginalAccepted(r) ==
    IF r.err # nil \/ Len(r.checkDigit) # 1
    THEN FALSE
    ELSE LET originVersion == IF Len(r.originalISBN) < headerLength
                              THEN VersionUnknown
                              ELSE getVersionFromOriginal(r) IN
         IF originVersion # VersionUnknown /\ originVersion # r.version
         THEN FALSE
         ELSE CASE r.version = Version10 -> calculateV10CheckDigit(r) = r.checkDigit
                [] r.version = Version13 -> calculateV13CheckDigit(r) = r.checkDigit
                [] OTHER -> FALSE

IsValid(r) ==
    IF r.err # nil \/ Len(r.checkDigit) # 1 \/ Len(r.originalISBN) < headerLength
    THEN FALSE
    ELSE LET originVersion == getVersionFromOriginal(r) IN
         IF originVersion # VersionUnknown /\ originVersion # r.version
         THEN FALSE
         ELSE CASE r.version = Version10 -> calculateV10CheckDigit(r) = r.checkDigit
                [] r.version = Version13 -> calculateV13CheckDigit(r) = r.checkDigit
                [] OTHER -> FALSE

\* Defective variant of Normalize: a version-13 record is left alone even
\* when it is not valid.
Normalize_SkipsVersion13(r) ==
    IF r.err # nil \/ r.version = Version13
    THEN r
    ELSE LET r1 == [r EXCEPT !.prefix = DefaultPrefix, !.version = Version13]
         IN [r1 EXCEPT !.checkDigit = calculateV13CheckDigit(r1)]

\* Defective variant of Normalize: the check digit is computed before the
\* prefix and the version are set.
Normalize_CheckBeforePrefix(r) ==
    IF r.err # nil \/ (r.version = Version13 /\ IsValid(r))
    THEN r
    ELSE [r EXCEPT !.checkDigit = calculateV13CheckDigit(r),
                   !.prefix = DefaultPrefix,
                   !.version = Version13]

Normalize(r) ==
    IF r.err # nil \/ (r.version = Version13 /\ IsValid(r))
    THEN r
    ELSE LET r1 == [r EXCEPT !.prefix = DefaultPrefix, !.version = Version13]
         IN [r1 EXCEPT !.checkDigit = calculateV13CheckDigit(r1)]

\* NewISBN returns [isbn, panic] like parseISBN.
NewISBN(isbnStr) ==
    IF ~isbnRegexMatch(isbnStr)
    THEN Returned([ZeroISBN EXCEPT !.err = errWrongISBN])
    ELSE
    LET found == isbnParserRegexFindAll(isbnStr)
        numbers == IF Len(found) > 1 /\ (found[1] = <<"1", "3">> \/ found[1] = <<"1", "0">>)
                   THEN Tail(found) ELSE found
        res == CASE Len(numbers) = version10Parts ->
                      Returned([ZeroISBN EXCEPT
                                   !.version = Version10,
                                   !.registrationGroup = numbers[1],
                                   !.registrant = numbers[2],
                                   !.publication = numbers[3],
                                   !.checkDigit = numbers[4]])
                 [] Len(numbers) = version13Parts ->
                      Returned([ZeroISBN EXCEPT
                                   !.version = Version13,
                                   !.prefix = numbers[1],
                                   !.registrationGroup = numbers[2],
                                   !.registrant = numbers[3],
                                   !.publication = numbers[4],
                                   !.checkDigit = numbers[5]])
                 [] Len(numbers) = versionXParts -> parseISBN(numbers[1])
                 [] OTHER -> Returned([ZeroISBN EXCEPT !.err = errWrongISBN])
    IN [isbn |-> [res.isbn EXCEPT !.originalISBN = isbnStr], panic |-> res.panic]

\* fmt.Sprintf with hyphens between the parts.
String(r) ==
    CASE r.version = Version10 ->
           <<"I", "S", "B", "N", "-">> \o Itoa(r.version) \o <<" ">>
           \o r.registrationGroup \o <<"-">> \o r.registrant \o <<"-">>
           \o r.publication \o <<"-">> \o r.checkDigit
      [] r.version = Version13 ->
           <<"I", "S", "B", "N", " ">>
           \o r.prefix \o <<"-">> \o r.registrationGroup \o <<"-">>
           \o r.registrant \o <<"-">> \o r.publication \o <<"-">> \o r.checkDigit
      [] OTHER -> <<>>

BarCode(r) ==
    r.prefix \o r.registrationGroup \o r.registrant \o r.publication \o r.checkDigit

(***************************************************************************)
(* Inputs.  Three families of input strings:                               *)
(*   - every run of at most MaxShortLen characters over ShortAlphabet;     *)
(*   - an optional label, then the tokens of TokenLists joined by a        *)
(*     separator of at most MaxSepLen characters (the empty separator      *)
(*     gives a solid run);                                                 *)
(*   - the inputs of the README and the tests, strings without any token,  *)
(*     and solid runs that end exactly at the registrant.                  *)
(***************************************************************************)
MaxShortLen == 5
MaxSepLen == 1
MaxNormalize == 2

ShortAlphabet == {"7", "8", "9"}

ShortRuns == UNION {[1..n -> ShortAlphabet] : n \in 1..MaxShortLen}

Labels ==
    {<<>>,
     <<"I", "S", "B", "N", " ">>,
     <<"I", "S", "B", "N", "-", "1", "0", " ">>,
     <<"I", "S", "B", "N", "-", "1", "3", " ">>,
     <<"i", "s", "b", "n", "-", "1", "3", " ">>}

Separators == UNION {[1..n -> {"-", " "}] : n \in 0..MaxSepLen}

GroupTokens == {<<"0">>, <<"9", "9", "9", "0", "0">>}
RegistrantTokens == {<<"3", "9", "3">>, <<"7", "7", "7", "7">>, <<"9", "9", "0", "0", "0">>}
PublicationTokens == {<<"0", "4", "0", "0", "2">>, <<"0", "4", "0", "0", "7">>}
CheckTokens == {<<d>> : d \in Digits \cup {"X", "x"}} \cup {<<"1", "0">>}

\* Four-token lists, the same lists behind the prefix 978, and the lists of
\* one registrant behind another leading token.
TokenLists ==
    LET four == {<<g, rg, p, c>> : g \in GroupTokens, rg \in RegistrantTokens,
                                   p \in PublicationTokens, c \in CheckTokens}
        some == {t \in four : t[1] = <<"0">> /\ t[2] = <<"3", "9", "3">>}
    IN four
       \cup {<<DefaultPrefix>> \o t : t \in four}
       \cup {<<lead>> \o t : lead \in {<<"9", "7", "9">>, <<"1", "0">>, <<"1", "3">>},
                             t \in some}

RECURSIVE Joined(_, _)
Joined(tokens, sep) ==
    IF Len(tokens) = 1 THEN tokens[1]
    ELSE tokens[1] \o sep \o Joined(Tail(tokens), sep)

Structured ==
    {label \o Joined(t, sep) : label \in Labels, t \in TokenLists, sep \in Separators}

EdgeInputs ==
    {<<>>,
     <<"I", "S", "B", "N">>,
     <<"I", "S", "B", "N", "-", "1", "0">>,
     <<"1", "2", "3", "4", "5">>,
     <<"9", "7", "8", "0", "7", "7", "7", "7", "7", "7", "7", "7", "0">>,
     <<"I", "S", "B", "N", " ", "9", "7", "8", " ", "0", " ", "7", "7", "7", "7", " ",
       "7", "7", "7", "7", " ", "0">>,
     <<"I", "S", "B", "N", " ", "9", "7", "8", "-", "0", "-", "7", "7", "7", "7", "-",
       "7", "7", "7", "7", "-", "0">>,
     <<"9", "9", "9", "0", "0", "9", "9", "0", "0", "0">>,
     <<"9", "7", "8", "9", "9", "9", "0", "0", "9", "9", "0", "0", "0">>,
     <<"I", "S", "B", "N", " ", "1", "2", "3", "3">>,
     <<"1", "3", "-", "1", "3", "-", "0", "-", "3", "9", "3", "-",
       "0", "4", "0", "0", "2", "-", "9">>,
     <<"9", "7", "8", "-", "1", "-", "4", "0", "2", "8", "-",
       "9", "4", "6", "2", "-", "6">>}

\* Solid runs of 10 digits, and the same runs behind 978, that start with a
\* registration group of every band of parseGroupLength followed by five
\* digits at the edges of every band of parseRegistrantLength.
GroupHeads ==
    {<<"0">>, <<"5">>, <<"6">>, <<"7">>, <<"8", "0">>, <<"9", "4">>,
     <<"9", "5", "0">>, <<"9", "8", "9">>, <<"9", "9", "0", "0">>,
     <<"9", "9", "8", "9">>, <<"9", "9", "9", "0", "0">>,
     <<"9", "9", "9", "9", "8">>, <<"9", "9", "9", "9", "9">>}

RegistrantHeads ==
    {<<"0", "0", "0", "0", "0">>, <<"1", "9", "9", "9", "9">>,
     <<"2", "0", "0", "0", "0">>, <<"4", "9", "9", "9", "9">>,
     <<"5", "0", "0", "0", "0">>, <<"8", "8", "9", "9", "9">>,
     <<"8", "9", "0", "0", "0">>, <<"9", "4", "9", "9", "9">>,
     <<"9", "5", "0", "0", "0">>, <<"9", "8", "9", "9", "9">>,
     <<"9", "9", "0", "0", "0">>, <<"9", "9", "9", "9", "9">>}

TableRuns ==
    {pre \o g \o rg \o [i \in 1..(5 - Len(g)) |-> "1"] :
        pre \in {<<>>, DefaultPrefix}, g \in GroupHeads, rg \in RegistrantHeads}

Inputs == ShortRuns \cup Structured \cup TableRuns \cup EdgeInputs

(***************************************************************************)
(* The state machine: one NewISBN call on the input, then Normalize calls. *)
(***************************************************************************)
Init ==
    /\ input \in Inputs
    /\ isbn = ZeroISBN
    /\ pc = "start"
    /\ normalized = 0

\* isbn := NewISBN(input); a panic ends the run without a record.
DoNewISBN ==
    /\ pc = "start"
    /\ LET res == NewISBN(input) IN
         IF res.panic
         THEN /\ pc' = "panic"
              /\ isbn' = isbn
         ELSE /\ pc' = "parsed"
              /\ isbn' = res.isbn
    /\ UNCHANGED <<input, normalized>>

\* isbn.Normalize()
DoNormalize ==
    /\ pc = "parsed"
    /\ normalized < MaxNormalize
    /\ isbn' = Normalize(isbn)
    /\ normalized' = normalized + 1
    /\ UNCHANGED <<input, pc>>

Next == DoNewISBN \/ DoNormalize

Spec == Init /\ [][Next]_vars

TypeOK ==
    /\ pc \in {"start", "parsed", "panic"}
    /\ normalized \in 0..MaxNormalize
    /\ isbn.version \in {VersionUnknown, Version10, Version13}
    /\ isbn.err \in {nil, errWrongISBN}

(***************************************************************************)
(* Vocabulary of the properties, defined without the program's operators.  *)
(***************************************************************************)
AllDigits(s) == \A i \in 1..Len(s) : s[i] \in Digits

SolidDigitRun(s) == Len(s) > 0 /\ AllDigits(s)

\* The value of a decimal digit.
Val(c) == CHOOSE n \in 0..9 : DigitChar[n] = c

\* prefix, group, registrant and publication, concatenated.
Data(r) == r.prefix \o r.registrationGroup \o r.registrant \o r.publication

\* group, registrant and publication, concatenated.
Body(r) == r.registrationGroup \o r.registrant \o r.publication

\* Sum of the digits of s weighted 1,3,1,3,... from the left.
RECURSIVE Sum13(_, _)
Sum13(s, i) ==
    IF i > Len(s) THEN 0
    ELSE Val(s[i]) * (IF i % 2 = 1 THEN 1 ELSE 3) + Sum13(s, i + 1)

\* Sum of the digits of s weighted 10,9,8,... from the left.
RECURSIVE Sum10(_, _)
Sum10(s, i) ==
    IF i > Len(s) THEN 0
    ELSE Val(s[i]) * (11 - i) + Sum10(s, i + 1)

\* The ISBN-13 check digit of a run of digits, as one character.
Check13(s) == <<DigitChar[(10 - (Sum13(s, 1) % 10)) % 10]>>

\* The version an input declares by an explicit ISBN-10 / ISBN-13 header.
HintOf(s) ==
    IF Len(s) < 7 THEN VersionUnknown
    ELSE IF SubSeq(s, 1, 7) \in {<<"I", "S", "B", "N", "-", "1", "0">>,
                                 <<"i", "s", "b", "n", "-", "1", "0">>}
         THEN Version10
    ELSE IF SubSeq(s, 1, 7) \in {<<"I", "S", "B", "N", "-", "1", "3">>,
                                 <<"i", "s", "b", "n", "-", "1", "3">>}
         THEN Version13
    ELSE VersionUnknown

\* The input without its leading ISBN label and the label's -10 / -13 hint.
StripLabel(s) ==
    IF Len(s) >= 4 /\ SubSeq(s, 1, 4) \in {<<"I", "S", "B", "N">>, <<"i", "s", "b", "n">>}
    THEN LET rest == SubSeq(s, 5, Len(s)) IN
         IF Len(rest) >= 3 /\ SubSeq(rest, 1, 3) \in {<<"-", "1", "0">>, <<"-", "1", "3">>}
         THEN SubSeq(rest, 4, Len(rest))
         ELSE rest
    ELSE s

\* The record r with the i-th character of Data(r) replaced by d.
Corrupt(r, i, d) ==
    LET lp == Len(r.prefix)
        lg == Len(r.registrationGroup)
        lr == Len(r.registrant)
    IN IF i <= lp THEN [r EXCEPT !.prefix[i] = d]
       ELSE IF i <= lp + lg THEN [r EXCEPT !.registrationGroup[i - lp] = d]
       ELSE IF i <= lp + lg + lr THEN [r EXCEPT !.registrant[i - lp - lg] = d]
       ELSE [r EXCEPT !.publication[i - lp - lg - lr] = d]

\* Every replacement of one decimal digit of Data(r) by another one makes
\* the record invalid.
SingleDigitErrorsDetected(r) ==
    LET data == Data(r) IN
    \A i \in 1..Len(data) : \A d \in Digits \ {data[i]} :
        data[i] \in Digits => ~IsValid(Corrupt(r, i, d))

(***************************************************************************)
(* C1 .. C10                                                               *)
(***************************************************************************)

\* C1: NewISBN never raises: whatever the input, the call returns a record
\* (with an error for a failure) and never ends in a slice panic.
C1_NeverRaises == pc # "panic"

\* C2: for a solid run of decimal digits whose length is neither 10 nor 13,
\* the record NewISBN returns has a non-nil error and IsValid is false.
C2_WrongLengthRejected ==
    (pc = "parsed" /\ normalized = 0
        /\ SolidDigitRun(input) /\ Len(input) \notin {10, 13})
    => (isbn.err # nil /\ ~IsValid(isbn))

\* C3: NewISBN dispatches on the number of tokens left after the leading ISBN
\* label and its -10/-13 hint are discarded: 4 tokens give a version-10
\* record made of the tokens, 5 tokens a version-13 record made of the tokens,
\* 1 token is parsed by length inference, any other count is a parse error;
\* also when the input has no label and its first token is "10" or "13".
C3_TokenCountDispatch ==
    (pc = "parsed" /\ normalized = 0) =>
        LET t == isbnParserRegexFindAll(StripLabel(input))
            n == Len(t)
        IN /\ n = 4 => /\ isbn.err = nil
                       /\ isbn.version = Version10
                       /\ isbn.prefix = <<>>
                       /\ <<isbn.registrationGroup, isbn.registrant,
                            isbn.publication, isbn.checkDigit>> = t
           /\ n = 5 => /\ isbn.err = nil
                       /\ isbn.version = Version13
                       /\ <<isbn.prefix, isbn.registrationGroup, isbn.registrant,
                            isbn.publication, isbn.checkDigit>> = t
           /\ n = 1 => isbn = [parseISBN(t[1]).isbn EXCEPT !.originalISBN = input]
           /\ n \notin {1, 4, 5} => isbn.err # nil

\* C4: IsValid is false for every record with a parse error, with a check
\* digit that is not one character, with an unknown version, or whose
\* original input starts with an ISBN-10 / ISBN-13 hint that differs from the
\* record's version, whatever the checksum says.
C4_InvalidWithoutChecksum ==
    (\/ isbn.err # nil
     \/ Len(isbn.checkDigit) # 1
     \/ isbn.version = VersionUnknown
     \/ (HintOf(isbn.originalISBN) # VersionUnknown
            /\ HintOf(isbn.originalISBN) # isbn.version))
    => ~IsValid(isbn)

\* A version-10 record under an ISBN-13 hint whose check digit is the right
\* one: only the hint makes it invalid.
C4_Witness ==
    /\ pc = "parsed"
    /\ isbn.err = nil
    /\ Len(isbn.checkDigit) = 1
    /\ isbn.version = Version10
    /\ HintOf(isbn.originalISBN) = Version13
    /\ calculateV10CheckDigit(isbn) = isbn.checkDigit
    /\ ~IsValid(isbn)

\* C5: a version-10 record without parse error whose recomputed check
\* character is X is valid when its stored check digit is X and also when it
\* is x.  Stated for the records nothing else stands against: a 9-digit body
\* whose weighted sum leaves 1 modulo 11, an original input long enough for
\* IsValid and declaring no other version.
C5_CheckCharCaseInsensitive ==
    (/\ pc = "parsed"
     /\ isbn.err = nil
     /\ isbn.version = Version10
     /\ Len(Body(isbn)) = 9 /\ AllDigits(Body(isbn))
     /\ Sum10(Body(isbn), 1) % 11 = 1
     /\ calculateV10CheckDigit(isbn) = <<"X">>
     /\ isbn.checkDigit \in {<<"X">>, <<"x">>}
     /\ Len(isbn.originalISBN) >= headerLength
     /\ HintOf(isbn.originalISBN) \in {VersionUnknown, Version10})
    => IsValid(isbn)

\* C6: the version-13 check digit depends on the concatenation of prefix,
\* group, registrant and publication only: it is the one digit
\* (10 - (S mod 10)) mod 10, S the sum of the digits weighted 1,3,1,3,...
C6_V13CheckDigit ==
    (pc = "parsed" /\ isbn.version = Version13 /\ AllDigits(Data(isbn)))
    => calculateV13CheckDigit(isbn) = Check13(Data(isbn))

\* A 13-digit record whose weighted sum is a multiple of 10 (check digit 0).
C6_Witness ==
    /\ pc = "parsed"
    /\ isbn.version = Version13
    /\ Len(Data(isbn)) = 12
    /\ AllDigits(Data(isbn))
    /\ Sum13(Data(isbn), 1) % 10 = 0
    /\ calculateV13CheckDigit(isbn) = <<"0">>

\* C7: for a version-10 record with a 9-digit body and weighted sum S, with
\* digit = 11 - (S mod 11): the check character is X exactly when digit is
\* 10, it is the decimal digit of that value otherwise, and X is never
\* produced when S is divisible by 11.
C7_V10CheckChar ==
    (pc = "parsed" /\ isbn.version = Version10
        /\ Len(Body(isbn)) = 9 /\ AllDigits(Body(isbn)))
    => LET S == Sum10(Body(isbn), 1)
           digit == 11 - (S % 11)
           c == calculateV10CheckDigit(isbn)
       IN /\ (c = <<"X">>) <=> (digit = 10)
          /\ digit < 10 => c = <<DigitChar[digit]>>
          /\ S % 11 = 0 => c # <<"X">>

\* C8: for a valid version-13 record, replacing one decimal digit of prefix,
\* group, registrant or publication by another digit gives an invalid record.
C8_V13SingleDigitError ==
    (pc = "parsed" /\ isbn.version = Version13 /\ IsValid(isbn))
    => SingleDigitErrorsDetected(isbn)

\* A valid 13-digit record straight from NewISBN.
C8_Witness ==
    /\ pc = "parsed"
    /\ normalized = 0
    /\ isbn.version = Version13
    /\ IsValid(isbn)
    /\ Len(Data(isbn)) = 12
    /\ AllDigits(Data(isbn))

\* C9: for a valid version-10 record with a 9-digit body (check digit X
\* included), replacing one decimal digit of group, registrant or publication
\* by another digit gives an invalid record.
C9_V10SingleDigitError ==
    (pc = "parsed" /\ isbn.version = Version10
        /\ Len(Body(isbn)) = 9 /\ IsValid(isbn))
    => SingleDigitErrorsDetected(isbn)

\* C10: Normalize leaves a record with a parse error, and a valid version-13
\* record, unchanged; any other record gets prefix 978, version 13 and the
\* version-13 check digit of 978+group+registrant+publication, and keeps its
\* group, registrant, publication and error.  0-393-04002-X becomes
\* ISBN 978-0-393-04002-9.
C10_Normalize ==
    [][normalized' # normalized =>
          IF isbn.err # nil \/ (isbn.version = Version13 /\ IsValid(isbn))
          THEN isbn' = isbn
          ELSE /\ isbn'.prefix = <<"9", "7", "8">>
               /\ isbn'.version = Version13
               /\ isbn'.checkDigit = Check13(<<"9", "7", "8">> \o Body(isbn))
               /\ isbn'.registrationGroup = isbn.registrationGroup
               /\ isbn'.registrant = isbn.registrant
               /\ isbn'.publication = isbn.publication
               /\ isbn'.err = isbn.err
               /\ (input = <<"0", "-", "3", "9", "3", "-", "0", "4", "0", "0", "2", "-", "X">>
                      /\ normalized = 0)
                  => String(isbn') =
                        <<"I", "S", "B", "N", " ", "9", "7", "8", "-", "0", "-",
                          "3", "9", "3", "-", "0", "4", "0", "0", "2", "-", "9">>
    ]_vars

\* The version-10 record of 0-393-04002-X after one Normalize.
C10_Witness ==
    /\ pc = "parsed"
    /\ normalized = 1
    /\ input = <<"0", "-", "3", "9", "3", "-", "0", "4", "0", "0", "2", "-", "X">>
    /\ isbn.version = Version13
    /\ isbn.checkDigit = <<"9">>

(***************************************************************************)
(* C11 .. C20                                                              *)
(***************************************************************************)

\* The fields of a record other than the stored original input.
Fields(r) ==
    <<r.version, r.prefix, r.registrationGroup, r.registrant, r.publication,
      r.checkDigit>>

\* The input starts with the label ISBN / isbn and no -10 / -13 follows it.
BareLabel(s) ==
    /\ Len(s) >= 4
    /\ SubSeq(s, 1, 4) \in {<<"I", "S", "B", "N">>, <<"i", "s", "b", "n">>}
    /\ HintOf(s) = VersionUnknown

\* C11: Normalize is idempotent: a second Normalize leaves every field of the
\* record as the first one left it, for records with or without error and
\* with or without a version hint in the input.
C11_NormalizeIdempotent ==
    [][(normalized >= 1 /\ normalized' # normalized) => isbn' = isbn]_vars

\* A record under an ISBN-10 hint after two Normalize calls: the first call
\* changed it, and it is not valid afterwards, so the second call recomputes.
C11_Witness ==
    /\ pc = "parsed"
    /\ normalized = 2
    /\ isbn.err = nil
    /\ isbn.version = Version13
    /\ HintOf(isbn.originalISBN) = Version10
    /\ ~IsValid(isbn)
    /\ isbn.checkDigit = Check13(Data(isbn))

\* C12: round trip: for every valid record r returned by NewISBN,
\* NewISBN(r.String()) has no error and the same version, prefix, group,
\* registrant, publication and check digit as r.
C12_RoundTrip ==
    (pc = "parsed" /\ normalized = 0 /\ IsValid(isbn))
    => LET again == NewISBN(String(isbn)) IN
       /\ ~again.panic
       /\ again.isbn.err = nil
       /\ Fields(again.isbn) = Fields(isbn)

\* C13: for every version-10 record, String is "ISBN " followed by group,
\* registrant, publication and check digit joined by single hyphens, with no
\* version number in the label.
C13_StringVersion10 ==
    (pc = "parsed" /\ isbn.version = Version10)
    => String(isbn) =
          <<"I", "S", "B", "N", " ">>
          \o isbn.registrationGroup \o <<"-">> \o isbn.registrant \o <<"-">>
          \o isbn.publication \o <<"-">> \o isbn.checkDigit

\* C14: for every input for which NewISBN returns a record with a parse
\* error (also an error of the length-inference path, raised after the
\* version was inferred), String returns the empty string.
C14_StringOfErrorIsEmpty ==
    (pc = "parsed" /\ normalized = 0 /\ isbn.err # nil) => String(isbn) = <<>>

\* C15: a record NewISBN returns with a parse error is not partially
\* populated: its version is unknown and its prefix, group, registrant,
\* publication and check digit are empty.
C15_ErrorRecordIsEmpty ==
    (pc = "parsed" /\ normalized = 0 /\ isbn.err # nil)
    => Fields(isbn) = <<VersionUnknown, <<>>, <<>>, <<>>, <<>>, <<>>>>

\* C16: for every input whose record is valid, BarCode is the concatenation
\* of the fields without separators: 13 decimal digits for version 13, nine
\* decimal digits and then a decimal digit or X / x for version 10.
C16_BarCodeShape ==
    (pc = "parsed" /\ normalized = 0 /\ IsValid(isbn))
    => LET b == BarCode(isbn) IN
       /\ b = Data(isbn) \o isbn.checkDigit
       /\ isbn.version = Version13 => (Len(b) = 13 /\ AllDigits(b))
       /\ isbn.version = Version10 =>
             /\ Len(b) = 10
             /\ AllDigits(SubSeq(b, 1, 9))
             /\ b[10] \in Digits \cup {"X", "x"}

\* The tokens of a list, concatenated without separators.
RECURSIVE Flat(_)
Flat(tokens) == IF tokens = <<>> THEN <<>> ELSE Head(tokens) \o Flat(Tail(tokens))

\* C17: separator independence: for every input of 4 or 5 separated tokens
\* whose record is valid, the same characters written as a solid run, with or
\* without the label "ISBN ", parse to a record with the same version,
\* prefix, group, registrant, publication and check digit.
C17_SeparatorIndependence ==
    LET t == isbnParserRegexFindAll(StripLabel(input)) IN
    (pc = "parsed" /\ normalized = 0 /\ Len(t) \in {4, 5} /\ IsValid(isbn))
    => \A solid \in {Flat(t), <<"I", "S", "B", "N", " ">> \o Flat(t)} :
          LET again == NewISBN(solid) IN
          /\ ~again.panic
          /\ Fields(again.isbn) = Fields(isbn)

\* C18: an input with the bare label ISBN / isbn declares version 13, so a
\* record parsed as version 10 from it is not valid.
C18_BareLabelMeansVersion13 ==
    (pc = "parsed" /\ normalized = 0 /\ BareLabel(input) /\ isbn.version = Version10)
    => ~IsValid(isbn)

\* The number a run of decimal digits denotes.
RECURSIVE Decimal(_)
Decimal(s) ==
    IF s = <<>> THEN 0
    ELSE 10 * Decimal(SubSeq(s, 1, Len(s) - 1)) + Val(s[Len(s)])

\* The length of the registration group that starts a five-digit number; 0
\* stands for an error.
GroupBand(v) ==
    IF v < 60000 THEN 1
    ELSE IF v < 70000 THEN 0
    ELSE IF v < 80000 THEN 1
    ELSE IF v < 95000 THEN 2
    ELSE IF v < 99000 THEN 3
    ELSE IF v < 99900 THEN 4
    ELSE IF v < 99999 THEN 5
    ELSE 0

\* The length of the registrant that starts a five-digit number.
RegistrantBand(v) ==
    IF v < 20000 THEN 2
    ELSE IF v < 50000 THEN 3
    ELSE IF v < 89000 THEN 4
    ELSE IF v < 95000 THEN 2
    ELSE IF v < 99000 THEN 4
    ELSE 5

\* C19: length inference on a solid run of 10 or 13 decimal digits: version
\* 13 with prefix 978 iff the run starts with 978, else version 10 without
\* prefix; the group has the length the group table gives for the next five
\* digits (an error in the bands 60000..69999 and from 99999), the registrant
\* the length the registrant table gives for the five digits after the group;
\* the publication is the rest but the last character, the check digit the
\* last character, whenever group and registrant leave a character for it.
C19_LengthInference ==
    LET t == isbnParserRegexFindAll(StripLabel(input)) IN
    (pc # "start" /\ normalized = 0 /\ Len(t) = 1
        /\ AllDigits(t[1]) /\ Len(t[1]) \in {10, 13})
    => LET run == t[1]
           n == Len(run)
           is13 == SubSeq(run, 1, 3) = <<"9", "7", "8">>
           off == IF is13 THEN 3 ELSE 0
           gl == GroupBand(Decimal(SubSeq(run, off + 1, off + 5)))
           rl == RegistrantBand(Decimal(SubSeq(run, off + gl + 1, off + gl + 5)))
       IN IF gl = 0
          THEN pc = "parsed" /\ isbn.err # nil
          ELSE (off + gl + rl < n) =>
                 /\ pc = "parsed"
                 /\ isbn.err = nil
                 /\ isbn.version = IF is13 THEN Version13 ELSE Version10
                 /\ isbn.prefix = IF is13 THEN <<"9", "7", "8">> ELSE <<>>
                 /\ isbn.registrationGroup = SubSeq(run, off + 1, off + gl)
                 /\ isbn.registrant = SubSeq(run, off + gl + 1, off + gl + rl)
                 /\ isbn.publication = SubSeq(run, off + gl + rl + 1, n - 1)
                 /\ isbn.checkDigit = <<run[n]>>

\* A solid 13-digit run behind 978 whose group has two digits and whose
\* registrant falls in the two-digit band from 89000 to 95000.
C19_Witness ==
    /\ pc = "parsed"
    /\ normalized = 0
    /\ isbn.err = nil
    /\ input = BarCode(isbn)
    /\ Len(input) = 13
    /\ isbn.version = Version13
    /\ Len(isbn.registrationGroup) = 2
    /\ Len(isbn.registrant) = 2
    /\ Decimal(SubSeq(input, 6, 10)) >= 89000

\* C20: Normalize establishes validity: every record NewISBN returns without
\* a parse error has version 13 and is valid after Normalize, also for an
\* input labelled ISBN-10 and for an input of fewer than 7 characters.
C20_NormalizeMakesValid ==
    (pc = "parsed" /\ normalized >= 1 /\ isbn.err = nil)
    => (isbn.version = Version13 /\ IsValid(isbn))

(***************************************************************************)
(* C21                                                                     *)
(***************************************************************************)
\* The check character the record's version prescribes for its fields.
Recomputed(r) ==
    CASE r.version = Version10 -> calculateV10CheckDigit(r)
      [] r.version = Version13 -> calculateV13CheckDigit(r)
      [] OTHER -> <<>>

====
